---- MODULE Spec2Model ----
(***************************************************************************)
(* Model of the multi-adapter vLLM-on-SageMaker notebook:                  *)
(*   - the benchmark harness (invoke_adapter / benchmark_scenario),        *)
(*   - the LoRA manifest builder (list_s3_leaf_directories + manifest),    *)
(*   - the container entrypoint (sagemaker_entrypoint.sh),                 *)
(*   - the Dockerfile route substitutions (sed).                           *)
(* Each component has its own specification over its own variables; the    *)
(* variables of the other components stay at their idle values.            *)
(***************************************************************************)
EXTENDS Integers, Sequences, FiniteSets, TLC

\* ------------------------------------------------------------------ bounds
MaxT == 3
MaxA == 2
MaxW == 2
MaxRuns == 2

\* Measured latencies (time.time() differences) are kept as whole ticks; the
\* harness only appends, sums and counts them.
LatencySet == {1}

VARIABLES
    \* benchmark harness
    cfg_total_requests, \* the configured budget T (value assigned at line 671)
    num_adapters,       \* A
    num_threads,        \* W
    total_requests,     \* the global counter decremented in single-adapter mode
    adapter_counters,   \* list of per-adapter remaining counts
    counters_lock,      \* TRUE while threading.Lock is held
    single_adapter,     \* argument of the running benchmark_scenario
    mpc,                \* position of the main thread
    threads,            \* len(threads): number of threads started in this run
    joined,             \* number of threads joined in this run
    wpc,                \* position of each worker thread
    adapter_id,         \* worker local
    latencies,          \* worker local list
    all_latencies,      \* the thread_latencies lists owned by benchmark_scenario
    invoked,            \* per adapter: predict() calls sent in this run
    stats,              \* what benchmark_scenario computed
    runs,               \* completed benchmark_scenario calls
    start_total,        \* total_requests when the run was entered
    start_counters,     \* adapter_counters when the run was entered
    \* Dockerfile build
    docker_pc,          \* last Dockerfile step executed
    api_server_py,      \* text of vllm/entrypoints/openai/api_server.py
    base_py,            \* the text shipped in the base image
    built_py,           \* the text in the image after the first build
    \* sagemaker_entrypoint.sh
    ent_pc,             \* position in the script
    env,                \* environment of the container
    manifest_file,      \* content of $MODEL_DIR/$LORA_MODULES_MANIFEST_FILE
    LORA_MODULES,       \* shell variable
    LAUNCH_COMMAND,     \* shell variable
    argv,               \* argument vector of the launched process
    launches,           \* processes the script has started with python3 -m
    last_status,        \* $?: exit status of the last command of the script
    server_status,      \* exit status of the wrapped server once it has ended
    exit_code,          \* exit status of the script once ent_pc = "exited"
    \* manifest builder cells
    man_pc,             \* position in the manifest cells
    bucket,             \* keys of the objects in the session bucket
    response,           \* result of s3.list_objects_v2
    leaf_directories,   \* notebook global
    manifest_text,      \* text written to lora_modules.txt
    \* the notebook run cell by cell
    nb_pc,              \* the next cell of the notebook
    kernel,             \* names bound in the kernel's namespace
    n_adapters,         \* number of adapter copies
    s3_manifest,        \* content of the manifest object in the bucket
    deployed,           \* the endpoint's container has been started
    served,             \* module names the server read at its start
    sent                \* adapter identifiers sent in inference requests

benchVars == <<cfg_total_requests, num_adapters, num_threads, total_requests,
               adapter_counters, counters_lock, single_adapter, mpc, threads,
               joined, wpc, adapter_id, latencies, all_latencies, invoked,
               stats, runs, start_total, start_counters>>

dockerVars == <<docker_pc, api_server_py, base_py, built_py>>
entVars == <<ent_pc, env, manifest_file, LORA_MODULES, LAUNCH_COMMAND, argv,
             launches, last_status, server_status, exit_code>>
manVars == <<man_pc, bucket, response, leaf_directories, manifest_text>>

nbVars == <<nb_pc, kernel, n_adapters, s3_manifest, deployed, served, sent>>

vars == <<benchVars, dockerVars, entVars, manVars, nbVars>>

Workers == 1..num_threads
Adapters == 1..num_adapters

RECURSIVE SumSeq(_)
SumSeq(s) == IF s = <<>> THEN 0 ELSE Head(s) + SumSeq(Tail(s))

RECURSIVE SumFn(_, _)
SumFn(f, n) == IF n = 0 THEN 0 ELSE f[n] + SumFn(f, n - 1)

NoStats == [computed |-> FALSE, total_latency |-> 0, total_requests_made |-> 0]

InitCounters_NoDivision(T, A) == [i \in 1..A |-> T]

\* adapter_counters = [total_requests // num_adapters] * num_adapters
InitCounters(T, A) == [i \in 1..A |-> T \div A]

BenchInit ==
    /\ cfg_total_requests \in 0..MaxT
    /\ num_adapters \in 1..MaxA
    /\ num_threads \in 1..MaxW
    /\ total_requests = cfg_total_requests
    /\ adapter_counters = InitCounters(cfg_total_requests, num_adapters)
    /\ counters_lock = FALSE
    /\ single_adapter = FALSE
    /\ mpc = "idle"
    /\ threads = 0
    /\ joined = 0
    /\ wpc = [w \in Workers |-> "unstarted"]
    /\ adapter_id = [w \in Workers |-> 0]
    /\ latencies = [w \in Workers |-> <<>>]
    /\ all_latencies = [w \in Workers |-> <<>>]
    /\ invoked = [a \in Adapters |-> 0]
    /\ stats = NoStats
    /\ runs = 0
    /\ start_total = cfg_total_requests
    /\ start_counters = adapter_counters

\* The harness when another component is under study: nothing configured.
BenchIdle ==
    /\ cfg_total_requests = 0
    /\ num_adapters = 0
    /\ num_threads = 0
    /\ total_requests = 0
    /\ adapter_counters = <<>>
    /\ counters_lock = FALSE
    /\ single_adapter = FALSE
    /\ mpc = "off"
    /\ threads = 0
    /\ joined = 0
    /\ wpc = <<>>
    /\ adapter_id = <<>>
    /\ latencies = <<>>
    /\ all_latencies = <<>>
    /\ invoked = <<>>
    /\ stats = NoStats
    /\ runs = 0
    /\ start_total = 0
    /\ start_counters = <<>>

\* ------------------------------------------------------- benchmark_scenario
\* Entry of benchmark_scenario(single_adapter=sa): threads = [], all_latencies = []
BenchStart(sa) ==
    /\ mpc = "idle"
    /\ runs < MaxRuns
    /\ single_adapter' = sa
    /\ mpc' = "spawn"
    /\ threads' = 0
    /\ joined' = 0
    /\ wpc' = [w \in Workers |-> "unstarted"]
    /\ adapter_id' = [w \in Workers |-> 0]
    /\ latencies' = [w \in Workers |-> <<>>]
    /\ all_latencies' = [w \in Workers |-> <<>>]
    /\ invoked' = [a \in Adapters |-> 0]
    /\ stats' = NoStats
    /\ start_total' = total_requests
    /\ start_counters' = adapter_counters
    /\ UNCHANGED <<cfg_total_requests, num_adapters, num_threads, total_requests,
                   adapter_counters, counters_lock, runs>>

\* One iteration of "for _ in range(num_threads)": create and start a thread.
Spawn ==
    /\ mpc = "spawn"
    /\ threads < num_threads
    /\ threads' = threads + 1
    /\ wpc' = [wpc EXCEPT ![threads + 1] = "while"]
    /\ mpc' = IF threads + 1 = num_threads THEN "join" ELSE "spawn"
    /\ UNCHANGED <<cfg_total_requests, num_adapters, num_threads, total_requests,
                   adapter_counters, counters_lock, single_adapter, joined,
                   adapter_id, latencies, all_latencies, invoked, stats, runs,
                   start_total, start_counters>>

Terminated(w) == wpc[w] \in {"finished", "raised"}

JoinReturns_NoWait(w) == TRUE

JoinReturns_Timeout(w) == wpc[w] \in {"finished", "raised", "hung"}

\* thread.join() returns only when the thread has terminated.
JoinReturns(w) == Terminated(w)

\* One iteration of "for thread in threads: thread.join()".
Join ==
    /\ mpc = "join"
    /\ joined < num_threads
    /\ JoinReturns(joined + 1)
    /\ joined' = joined + 1
    /\ mpc' = IF joined + 1 = num_threads THEN "stats" ELSE "join"
    /\ UNCHANGED <<cfg_total_requests, num_adapters, num_threads, total_requests,
                   adapter_counters, counters_lock, single_adapter, threads,
                   wpc, adapter_id, latencies, all_latencies, invoked, stats,
                   runs, start_total, start_counters>>

TotalLatency == SumFn([w \in Workers |-> SumSeq(all_latencies[w])], num_threads)
TotalRequestsMade == SumFn([w \in Workers |-> Len(all_latencies[w])], num_threads)

DivisionFails_Guarded == FALSE

\* average_latency = total_latency / total_requests_made
DivisionFails == TotalRequestsMade = 0

\* Lines 729-736: the division raises ZeroDivisionError when no call was recorded.
Stats ==
    /\ mpc = "stats"
    /\ IF DivisionFails
       THEN /\ mpc' = "ZeroDivisionError"
            /\ UNCHANGED <<stats, runs>>
       ELSE /\ mpc' = "idle"
            /\ stats' = [computed |-> TRUE, total_latency |-> TotalLatency,
                         total_requests_made |-> TotalRequestsMade]
            /\ runs' = runs + 1
    /\ UNCHANGED <<cfg_total_requests, num_adapters, num_threads, total_requests,
                   adapter_counters, counters_lock, single_adapter, threads,
                   joined, wpc, adapter_id, latencies, all_latencies, invoked,
                   start_total, start_counters>>

\* ----------------------------------------------------------- invoke_adapter
LockFree_NoMutex == TRUE

\* threading.Lock.acquire blocks until the lock is free.
LockFree == counters_lock = FALSE

\* "with counters_lock:" entry
Acquire(w) ==
    /\ wpc[w] = "while"
    /\ LockFree
    /\ counters_lock' = TRUE
    /\ wpc' = [wpc EXCEPT ![w] = "in_lock"]
    /\ UNCHANGED <<cfg_total_requests, num_adapters, num_threads, total_requests,
                   adapter_counters, single_adapter, mpc, threads, joined,
                   adapter_id, latencies, all_latencies, invoked, stats, runs,
                   start_total, start_counters>>

\* remaining_adapters = [i for i, count in enumerate(adapter_counters) if count > 0]
remaining_adapters == {i \in Adapters : adapter_counters[i] > 0}

HasBudget_OffByOne == total_requests >= 0

\* "if total_requests > 0:"
HasBudget == total_requests > 0

AfterBreak_Continue == "while"

\* "break" leaves the while loop: the next statement is line 712.
AfterBreak == "extend"

\* Lines 685-696: the eligibility test, and the choice of the adapter.
Check(w) ==
    /\ wpc[w] = "in_lock"
    /\ IF single_adapter
       THEN /\ adapter_id' = [adapter_id EXCEPT ![w] = 1]
            /\ wpc' = [wpc EXCEPT ![w] =
                         IF HasBudget THEN "decrement" ELSE "break"]
       ELSE IF remaining_adapters = {}
            THEN /\ wpc' = [wpc EXCEPT ![w] = "break"]
                 /\ UNCHANGED adapter_id
            ELSE \E i \in remaining_adapters :
                    /\ adapter_id' = [adapter_id EXCEPT ![w] = i]
                    /\ wpc' = [wpc EXCEPT ![w] = "decrement"]
    /\ UNCHANGED <<cfg_total_requests, num_adapters, num_threads, total_requests,
                   adapter_counters, counters_lock, single_adapter, mpc, threads,
                   joined, latencies, all_latencies, invoked, stats, runs,
                   start_total, start_counters>>

\* Lines 688 / 697: the decrement.
Decrement(w) ==
    /\ wpc[w] = "decrement"
    /\ IF single_adapter
       THEN /\ total_requests' = total_requests - 1
            /\ UNCHANGED adapter_counters
       ELSE /\ adapter_counters' =
                 [adapter_counters EXCEPT ![adapter_id[w]] = @ - 1]
            /\ UNCHANGED total_requests
    /\ wpc' = [wpc EXCEPT ![w] = "unlock"]
    /\ UNCHANGED <<cfg_total_requests, num_adapters, num_threads, counters_lock,
                   single_adapter, mpc, threads, joined, adapter_id, latencies,
                   all_latencies, invoked, stats, runs, start_total,
                   start_counters>>

LockAfterWith_HeldForCall(claimed) == claimed

\* The with statement releases counters_lock on every exit from its block,
\* whether the worker claimed a unit (and goes on to the call) or broke out.
LockAfterWith(claimed) == FALSE

\* Leaving the with block: normally (to the remote call) or by break.
Release(w) ==
    /\ wpc[w] \in {"unlock", "break"}
    /\ counters_lock' = LockAfterWith(wpc[w] = "unlock")
    /\ wpc' = [wpc EXCEPT ![w] = IF wpc[w] = "unlock" THEN "predict" ELSE AfterBreak]
    /\ invoked' = IF wpc[w] = "unlock"
                  THEN [invoked EXCEPT ![adapter_id[w]] = @ + 1]
                  ELSE invoked
    /\ UNCHANGED <<cfg_total_requests, num_adapters, num_threads, total_requests,
                   adapter_counters, single_adapter, mpc, threads, joined,
                   adapter_id, latencies, all_latencies, stats, runs,
                   start_total, start_counters>>

\* vllm_predictor.predict returns: latencies.append(latency)
PredictReturn(w) ==
    /\ wpc[w] = "predict"
    /\ \E l \in LatencySet : latencies' = [latencies EXCEPT ![w] = Append(@, l)]
    /\ wpc' = [wpc EXCEPT ![w] = "while"]
    /\ UNCHANGED <<cfg_total_requests, num_adapters, num_threads, total_requests,
                   adapter_counters, counters_lock, single_adapter, mpc, threads,
                   joined, adapter_id, all_latencies, invoked, stats, runs,
                   start_total, start_counters>>

PredictRaise_Finally(w) ==
    /\ wpc[w] = "predict"
    /\ wpc' = [wpc EXCEPT ![w] = "raised"]
    /\ all_latencies' = [all_latencies EXCEPT ![w] = @ \o latencies[w]]
    /\ UNCHANGED <<cfg_total_requests, num_adapters, num_threads, total_requests,
                   adapter_counters, counters_lock, single_adapter, mpc, threads,
                   joined, adapter_id, latencies, invoked, stats,
                   runs, start_total, start_counters>>

\* vllm_predictor.predict raises: the exception ends the thread.
PredictRaise(w) ==
    /\ wpc[w] = "predict"
    /\ wpc' = [wpc EXCEPT ![w] = "raised"]
    /\ UNCHANGED <<cfg_total_requests, num_adapters, num_threads, total_requests,
                   adapter_counters, counters_lock, single_adapter, mpc, threads,
                   joined, adapter_id, latencies, all_latencies, invoked, stats,
                   runs, start_total, start_counters>>

aggregate_latency_Shared(w) == 1

\* Lines 720-722: every thread is handed a fresh thread_latencies list of its
\* own, the one appended to all_latencies in the same iteration.
aggregate_latency(w) == w

\* vllm_predictor.predict never returns (no timeout is passed and nothing
\* cancels it): the worker stays blocked in the call.
PredictHang(w) ==
    /\ wpc[w] = "predict"
    /\ wpc' = [wpc EXCEPT ![w] = "hung"]
    /\ UNCHANGED <<cfg_total_requests, num_adapters, num_threads, total_requests,
                   adapter_counters, counters_lock, single_adapter, mpc, threads,
                   joined, adapter_id, latencies, all_latencies, invoked, stats,
                   runs, start_total, start_counters>>

\* aggregate_latency.extend(latencies), then the thread ends.
Extend(w) ==
    /\ wpc[w] = "extend"
    /\ all_latencies' = [all_latencies EXCEPT
                            ![aggregate_latency(w)] = @ \o latencies[w]]
    /\ wpc' = [wpc EXCEPT ![w] = "finished"]
    /\ UNCHANGED <<cfg_total_requests, num_adapters, num_threads, total_requests,
                   adapter_counters, counters_lock, single_adapter, mpc, threads,
                   joined, adapter_id, latencies, invoked, stats, runs,
                   start_total, start_counters>>

invoke_adapter(w) ==
    \/ Acquire(w)
    \/ Check(w)
    \/ Decrement(w)
    \/ Release(w)
    \/ PredictReturn(w)
    \/ PredictRaise(w)
    \/ Extend(w)

benchmark_scenario ==
    \/ \E sa \in BOOLEAN : BenchStart(sa)
    \/ Spawn
    \/ Join
    \/ Stats


\* =================================================================
\* Text is a sequence of one-character strings.
IsPrefix(p, t) == Len(p) <= Len(t) /\ SubSeq(t, 1, Len(p)) = p

RECURSIVE Concat(_)
Concat(ss) == IF ss = <<>> THEN <<>> ELSE Head(ss) \o Concat(Tail(ss))

\* Sequences over S of length 0..n.
SeqUpTo(S, n) == UNION {[1..k -> S] : k \in 0..n}

\* ------------------------------------------------------------ Dockerfile
MaxFrag == 3

HEALTH == <<"/", "h", "e", "a", "l", "t", "h">>
PING == <<"/", "p", "i", "n", "g">>
V1_COMPLETIONS == <<"/", "v", "1", "/", "c", "o", "m", "p", "l", "e", "t", "i", "o", "n", "s">>
INVOCATIONS == <<"/", "i", "n", "v", "o", "c", "a", "t", "i", "o", "n", "s">>
NL == <<"\n">>

\* Pieces the server source is assembled from: the routes vLLM declares,
\* the replacement routes, and pieces that extend or split a route.
Fragments ==
    { HEALTH, V1_COMPLETIONS, <<"/", "v", "1", "/", "c", "h", "a", "t", "/", "c", "o", "m", "p", "l", "e", "t", "i", "o", "n", "s">>,
      <<"/", "v", "1", "/", "m", "o", "d", "e", "l", "s">>, <<"/", "v", "e", "r", "s", "i", "o", "n">>, PING, INVOCATIONS,
      <<"/", "h", "e", "a", "l">>, <<"t", "h">>, <<"/", "v", "1">>, <<"/", "c", "o", "m", "p", "l", "e", "t", "i", "o", "n", "s">>, <<"z">>, NL }

SourceTexts == { Concat(fs) : fs \in SeqUpTo(Fragments, MaxFrag) }

\* sed 's|pat|rep|g' for a pattern without metacharacters: every
\* non-overlapping occurrence, leftmost first, is replaced.
RECURSIVE SedG(_, _, _)
SedG(pat, rep, t) ==
    IF t = <<>> THEN <<>>
    ELSE IF IsPrefix(pat, t)
         THEN rep \o SedG(pat, rep, SubSeq(t, Len(pat) + 1, Len(t)))
         ELSE <<Head(t)>> \o SedG(pat, rep, Tail(t))

DockerIdle ==
    /\ docker_pc = "off"
    /\ api_server_py = <<>>
    /\ base_py = <<>>
    /\ built_py = <<>>

\* FROM vllm/vllm-openai:$VERSION
DockerInit ==
    /\ docker_pc = "FROM"
    /\ api_server_py \in SourceTexts
    /\ base_py = api_server_py
    /\ built_py = <<>>

\* RUN sed -i 's|/health|/ping|g' ... ; on the base image, or again on the
\* image this Dockerfile produced.
RunSedHealth ==
    /\ docker_pc \in {"FROM", "built"}
    /\ api_server_py' = SedG(HEALTH, PING, api_server_py)
    /\ docker_pc' = IF docker_pc = "FROM" THEN "RUN5" ELSE "RUN5_again"
    /\ UNCHANGED <<base_py, built_py>>

\* RUN sed -i 's|/v1/completions|/invocations|g' ...
RunSedCompletions ==
    /\ docker_pc \in {"RUN5", "RUN5_again"}
    /\ api_server_py' = SedG(V1_COMPLETIONS, INVOCATIONS, api_server_py)
    /\ docker_pc' = IF docker_pc = "RUN5" THEN "built" ELSE "rebuilt"
    /\ built_py' = IF docker_pc = "RUN5" THEN api_server_py' ELSE built_py
    /\ UNCHANGED base_py

NextDocker ==
    \/ RunSedHealth /\ UNCHANGED <<benchVars, entVars, manVars, nbVars>>
    \/ RunSedCompletions /\ UNCHANGED <<benchVars, entVars, manVars, nbVars>>

\* ------------------------------------------------ sagemaker_entrypoint.sh
\* A shell string is kept as the list of its whitespace-separated words, which
\* is what the unquoted expansion in the last line of the script splits it into.
MaxManifestWords == 2

Set(v) == [set |-> TRUE, val |-> v]
Unset == [set |-> FALSE, val |-> ""]

\* "$NAME": the value, or the empty string when NAME is not set.
Getenv(name) == IF env[name].set THEN env[name].val ELSE ""

\* Unquoted $NAME inside the command string: no word when empty.
Words(v) == IF v = "" THEN <<>> ELSE <<v>>

\* json.dumps of a Python bool, as the notebook fills config['ENFORCE_EAGER'].
json_dumps(b) == IF b THEN "true" ELSE "false"

EagerValues ==
    {Set(json_dumps(b)) : b \in BOOLEAN}
        \cup {Set("True"), Set("TRUE"), Set("1"), Set(""), Unset}

ManifestWords == <<"1=/opt/ml/model/1/", "2=/opt/ml/model/2/", "3=/opt/ml/model/3/">>

ManifestFiles ==
    {[exists |-> FALSE, words |-> <<>>]}
        \cup {[exists |-> TRUE, words |-> SubSeq(ManifestWords, 1, k)] :
                k \in 0..MaxManifestWords}

EntIdle ==
    /\ ent_pc = "off"
    /\ env = <<>>
    /\ manifest_file = [exists |-> FALSE, words |-> <<>>]
    /\ LORA_MODULES = <<>>
    /\ LAUNCH_COMMAND = <<>>
    /\ argv = <<>>
    /\ launches = 0
    /\ last_status = 0
    /\ server_status = 0
    /\ exit_code = 0

EntInit ==
    /\ ent_pc = "start"
    /\ \E ee \in EagerValues,
          hf \in {Set("mistralai/Mistral-7B-Instruct-v0.1"), Unset},
          len \in {Set("4096"), Set("")},
          seqs \in {Set("100"), Set("many")} :
            env = [MODEL_DIR |-> Set("/opt/ml/model"),
                   LORA_MODULES_MANIFEST_FILE |-> Set("lora_modules.txt"),
                   HF_MODEL_ID |-> hf,
                   MAX_MODEL_LEN |-> len,
                   MAX_GPU_LORAS |-> Set("20"),
                   MAX_CPU_LORAS |-> Set("50"),
                   MAX_NUM_SEQS |-> seqs,
                   ENFORCE_EAGER |-> ee]
    /\ manifest_file \in ManifestFiles
    /\ LORA_MODULES = <<>>
    /\ LAUNCH_COMMAND = <<>>
    /\ argv = <<>>
    /\ launches = 0
    /\ last_status = 0
    /\ server_status = 0
    /\ exit_code = 0

\* LORA_MODULES=$(<"$MODEL_DIR/$LORA_MODULES_MANIFEST_FILE"); a missing file
\* leaves the variable empty and the script goes on.
ReadManifest ==
    /\ ent_pc = "start"
    /\ LORA_MODULES' = IF manifest_file.exists THEN manifest_file.words ELSE <<>>
    /\ last_status' = IF manifest_file.exists THEN 0 ELSE 1
    /\ ent_pc' = "read"
    /\ UNCHANGED <<env, manifest_file, LAUNCH_COMMAND, argv, launches,
                   server_status, exit_code>>

\* The command string of lines 5-13.
CommandLine ==
    <<"vllm.entrypoints.openai.api_server", "--port", "8080", "--model">>
        \o Words(Getenv("HF_MODEL_ID"))
        \o <<"--max-model-len">> \o Words(Getenv("MAX_MODEL_LEN"))
        \o <<"--enable-lora", "--lora-modules">> \o LORA_MODULES
        \o <<"--max-loras">> \o Words(Getenv("MAX_GPU_LORAS"))
        \o <<"--max-cpu-loras">> \o Words(Getenv("MAX_CPU_LORAS"))
        \o <<"--max-num-seqs">> \o Words(Getenv("MAX_NUM_SEQS"))

BuildCommand ==
    /\ ent_pc = "read"
    /\ LAUNCH_COMMAND' = CommandLine
    /\ last_status' = 0
    /\ ent_pc' = "built"
    /\ UNCHANGED <<env, manifest_file, LORA_MODULES, argv, launches,
                   server_status, exit_code>>

EagerRequested_AnyCase == Getenv("ENFORCE_EAGER") \in {"true", "True", "TRUE"}

\* [ "$ENFORCE_EAGER" = "true" ]
EagerRequested == Getenv("ENFORCE_EAGER") = "true"

\* Lines 16-19.
CheckEager ==
    /\ ent_pc = "built"
    /\ LAUNCH_COMMAND' = IF EagerRequested
                         THEN LAUNCH_COMMAND \o <<"--enforce-eager">>
                         ELSE LAUNCH_COMMAND
    /\ last_status' = 0
    /\ ent_pc' = "checked"
    /\ UNCHANGED <<env, manifest_file, LORA_MODULES, argv, launches,
                   server_status, exit_code>>

\* python3 -m $LAUNCH_COMMAND: the server runs in the foreground of the script.
Launch ==
    /\ ent_pc = "checked"
    /\ argv' = <<"python3", "-m">> \o LAUNCH_COMMAND
    /\ launches' = launches + 1
    /\ ent_pc' = "launched"
    /\ UNCHANGED <<env, manifest_file, LORA_MODULES, LAUNCH_COMMAND,
                   last_status, server_status, exit_code>>

\* Exit statuses of the python3 process as the shell sees them: a clean stop,
\* an uncaught exception, an argparse usage error, a kill by SIGKILL.
ServerStatuses == {0, 1, 2, 137}

\* The server ends; the script, which was waiting for it, gets its status in $?.
ServerExit ==
    /\ ent_pc = "launched"
    /\ \E st \in ServerStatuses :
          /\ server_status' = st
          /\ last_status' = st
    /\ ent_pc' = "returned"
    /\ UNCHANGED <<env, manifest_file, LORA_MODULES, LAUNCH_COMMAND, argv,
                   launches, exit_code>>

ScriptExit_Zero(status) == 0

\* Line 22 is the last line: the script ends with the status of its last
\* command.
ScriptExit(status) == status

ScriptEnd ==
    /\ ent_pc = "returned"
    /\ exit_code' = ScriptExit(last_status)
    /\ ent_pc' = "exited"
    /\ UNCHANGED <<env, manifest_file, LORA_MODULES, LAUNCH_COMMAND, argv,
                   launches, last_status, server_status>>

NextEntrypoint ==
    \/ ReadManifest /\ UNCHANGED <<benchVars, dockerVars, manVars, nbVars>>
    \/ BuildCommand /\ UNCHANGED <<benchVars, dockerVars, manVars, nbVars>>
    \/ CheckEager /\ UNCHANGED <<benchVars, dockerVars, manVars, nbVars>>
    \/ Launch /\ UNCHANGED <<benchVars, dockerVars, manVars, nbVars>>
    \/ ServerExit /\ UNCHANGED <<benchVars, dockerVars, manVars, nbVars>>
    \/ ScriptEnd /\ UNCHANGED <<benchVars, dockerVars, manVars, nbVars>>

\* ------------------------------------------------------- manifest builder
MaxListing == 2
MaxSegLen == 2

\* base_prefix + '/', the Prefix argument of the listing.
ListingPrefix == <<"v", "l", "l", "m", "/", "m", "i", "s", "t", "r", "a", "l", "-", "a", "d", "a", "p", "t", "e", "r", "s", "/">>

\* Characters of object-key segments, and their byte order.
SegAlphabet == {" ", "1", "a"}
Rank(c) == CASE c = " " -> 32 [] c = "/" -> 47 [] c = "1" -> 49 [] OTHER -> 97

\* lora_modules_manifest_file = "lora_modules.txt"
lora_modules_manifest_file ==
    <<"l", "o", "r", "a", "_", "m", "o", "d", "u", "l", "e", "s", ".", "t", "x", "t">>

\* f'{base_prefix}/{lora_modules_manifest_file}'
ManifestKey == ListingPrefix \o lora_modules_manifest_file

\* Key of a file of the adapter stored under the child prefix seg.
AdapterKey(seg) == ListingPrefix \o seg \o <<"/", "a">>

Segments == SeqUpTo(SegAlphabet, MaxSegLen)

RECURSIVE LexLess(_, _)
LexLess(x, y) ==
    IF y = <<>> THEN FALSE
    ELSE IF x = <<>> THEN TRUE
    ELSE IF Head(x) = Head(y) THEN LexLess(Tail(x), Tail(y))
    ELSE Rank(Head(x)) < Rank(Head(y))

RECURSIVE SortedSeq(_)
SortedSeq(S) ==
    IF S = {} THEN <<>>
    ELSE LET m == CHOOSE x \in S : \A y \in S \ {x} : LexLess(x, y)
         IN <<m>> \o SortedSeq(S \ {m})

\* s3.list_objects_v2(Prefix=prefix, Delimiter='/') over keys whose first
\* segments below the prefix are segs: one CommonPrefixes entry per segment,
\* in byte order of the prefixes.
CommonPrefixesOf(segs) ==
    SortedSeq({ListingPrefix \o seg \o <<"/">> : seg \in segs})

\* The part of a key below the listing prefix.
BelowPrefix(key) == SubSeq(key, Len(ListingPrefix) + 1, Len(key))

HasDelimiter(t) == \E i \in 1..Len(t) : t[i] = "/"

FirstDelimiter(t) ==
    CHOOSE i \in 1..Len(t) : t[i] = "/" /\ \A j \in 1..(i - 1) : t[j] # "/"

\* s3.list_objects_v2(Bucket, Prefix=prefix, Delimiter='/'): the keys under
\* the prefix with a further delimiter are rolled up into CommonPrefixes, the
\* others are listed in Contents.
list_objects_v2(keys) ==
    LET under == {k \in keys : IsPrefix(ListingPrefix, k)}
        deep == {k \in under : HasDelimiter(BelowPrefix(k))}
    IN [CommonPrefixes |->
            CommonPrefixesOf({SubSeq(BelowPrefix(k), 1,
                                     FirstDelimiter(BelowPrefix(k)) - 1) :
                                k \in deep}),
        Contents |-> SortedSeq(under \ deep)]

\* str.rstrip('/')
RECURSIVE rstrip(_)
rstrip(t) ==
    IF t # <<>> /\ t[Len(t)] = "/" THEN rstrip(SubSeq(t, 1, Len(t) - 1)) ELSE t

\* str.rsplit('/', 1)[-1]
RECURSIVE rsplit_last(_)
rsplit_last(t) ==
    IF t = <<>> THEN <<>>
    ELSE IF t[Len(t)] = "/" THEN <<>>
    ELSE rsplit_last(SubSeq(t, 1, Len(t) - 1)) \o <<t[Len(t)]>>

\* directory_path.rstrip('/').rsplit('/', 1)[-1]
directory_name(directory_path) == rsplit_last(rstrip(directory_path))

list_s3_leaf_directories_WithContents(resp) ==
    [i \in 1..(Len(resp.CommonPrefixes) + Len(resp.Contents)) |->
        directory_name((resp.CommonPrefixes \o resp.Contents)[i])]

list_s3_leaf_directories(resp) ==
    [i \in 1..Len(resp.CommonPrefixes) |-> directory_name(resp.CommonPrefixes[i])]

MOUNT == <<"/", "o", "p", "t", "/", "m", "l", "/", "m", "o", "d", "e", "l", "/">>

\* f"{leaf_dir}=/opt/ml/model/{leaf_dir}/"
vllm_arg(leaf_dir) == leaf_dir \o <<"=">> \o MOUNT \o leaf_dir \o <<"/">>

\* " ".join(parts)
RECURSIVE join(_)
join(parts) ==
    IF parts = <<>> THEN <<>>
    ELSE IF Len(parts) = 1 THEN parts[1]
    ELSE parts[1] \o <<" ">> \o join(Tail(parts))

vllm_arg_pattern(dirs) == join([i \in 1..Len(dirs) |-> vllm_arg(dirs[i])])

ManIdle ==
    /\ man_pc = "off"
    /\ bucket = {}
    /\ response = [CommonPrefixes |-> <<>>, Contents |-> <<>>]
    /\ leaf_directories = <<>>
    /\ manifest_text = <<>>

ManInit ==
    /\ man_pc = "listing"
    /\ \E pick \in SeqUpTo(Segments, MaxListing), uploaded \in BOOLEAN :
          /\ \A i \in 1..(Len(pick) - 1) : LexLess(pick[i], pick[i + 1])
          /\ bucket = {AdapterKey(pick[i]) : i \in 1..Len(pick)}
                        \cup (IF uploaded THEN {ManifestKey} ELSE {})
    /\ response = [CommonPrefixes |-> <<>>, Contents |-> <<>>]
    /\ leaf_directories = <<>>
    /\ manifest_text = <<>>

\* list_s3_leaf_directories(bucket_name, prefix): the listing, then the names.
ListCell ==
    /\ man_pc = "listing"
    /\ response' = list_objects_v2(bucket)
    /\ leaf_directories' = list_s3_leaf_directories(response')
    /\ man_pc' = "listed"
    /\ UNCHANGED <<bucket, manifest_text>>

\* The manifest cell: file.write(vllm_arg_pattern)
ManifestCell ==
    /\ man_pc = "listed"
    /\ manifest_text' = vllm_arg_pattern(leaf_directories)
    /\ man_pc' = "written"
    /\ UNCHANGED <<bucket, response, leaf_directories>>

NextManifest ==
    \/ ListCell /\ UNCHANGED <<benchVars, dockerVars, entVars, nbVars>>
    \/ ManifestCell /\ UNCHANGED <<benchVars, dockerVars, entVars, nbVars>>

\* ------------------------------------------------------- specifications
NbIdle ==
    /\ nb_pc = "off"
    /\ kernel = {}
    /\ n_adapters = 0
    /\ s3_manifest = <<>>
    /\ deployed = FALSE
    /\ served = {}
    /\ sent = {}

InitDockerfile == DockerInit /\ BenchIdle /\ EntIdle /\ ManIdle /\ NbIdle

SpecDockerfile == InitDockerfile /\ [][NextDocker]_vars

InitEntrypoint == EntInit /\ BenchIdle /\ DockerIdle /\ ManIdle /\ NbIdle

SpecEntrypoint == InitEntrypoint /\ [][NextEntrypoint]_vars

InitManifest == ManInit /\ BenchIdle /\ DockerIdle /\ EntIdle /\ NbIdle

SpecManifest == InitManifest /\ [][NextManifest]_vars


Init == BenchInit /\ DockerIdle /\ EntIdle /\ ManIdle /\ NbIdle

OthersIdle == UNCHANGED <<dockerVars, entVars, manVars, nbVars>>

Next ==
    \/ (\E sa \in BOOLEAN : BenchStart(sa)) /\ OthersIdle
    \/ Spawn /\ OthersIdle
    \/ Join /\ OthersIdle
    \/ Stats /\ OthersIdle
    \/ (\E w \in Workers : Acquire(w)) /\ OthersIdle
    \/ (\E w \in Workers : Check(w)) /\ OthersIdle
    \/ (\E w \in Workers : Decrement(w)) /\ OthersIdle
    \/ (\E w \in Workers : Release(w)) /\ OthersIdle
    \/ (\E w \in Workers : PredictReturn(w)) /\ OthersIdle
    \/ (\E w \in Workers : PredictRaise(w)) /\ OthersIdle
    \/ (\E w \in Workers : Extend(w)) /\ OthersIdle

Spec == Init /\ [][Next]_vars

\* Scheduling assumed by the liveness claims: every started thread keeps
\* running, the main thread keeps running, and a remote call in flight ends.
Fairness ==
    /\ WF_vars(Spawn /\ OthersIdle)
    /\ WF_vars(Join /\ OthersIdle)
    /\ WF_vars(Stats /\ OthersIdle)
    /\ \A w \in 1..MaxW :
          WF_vars(w \in Workers /\ invoke_adapter(w) /\ OthersIdle)

FairSpec == Spec /\ Fairness

\* The harness with remote calls that may also never return.
NextHang ==
    \/ Next
    \/ (\E w \in Workers : PredictHang(w)) /\ OthersIdle

HangSpec == Init /\ [][NextHang]_vars /\ Fairness

\* ================================================================= claims
\* All workers of the current run have been joined.
RunOver ==
    \/ mpc \in {"stats", "ZeroDivisionError"}
    \/ mpc = "idle" /\ stats.computed

NoRaise == \A w \in Workers : wpc[w] # "raised"

\* Remote calls issued in the current run, over all workers.
CallsExecuted == SumFn(invoked, num_adapters)

FreshSingle == single_adapter /\ start_total = cfg_total_requests
FreshDistributed ==
    /\ ~single_adapter
    /\ start_counters = InitCounters(cfg_total_requests, num_adapters)

BothWorked ==
    /\ num_threads >= 2
    /\ Cardinality({w \in Workers : Len(latencies[w]) > 0}) >= 2

\* C1: when a single-adapter run entered with the full budget T is over and
\* every remote call returned, the workers together issued exactly T calls.
C1_SingleAdapterExactlyT ==
    (RunOver /\ FreshSingle /\ NoRaise) => CallsExecuted = cfg_total_requests

C1_Witness ==
    /\ RunOver /\ FreshSingle /\ NoRaise
    /\ cfg_total_requests >= 3
    /\ BothWorked
    /\ CallsExecuted = cfg_total_requests

\* C2: when a distributed-random run entered with the initial counters is
\* over and every remote call returned, the workers together issued exactly
\* A * floor(T/A) calls.
C2_DistributedTotal ==
    (RunOver /\ FreshDistributed /\ NoRaise)
        => CallsExecuted = num_adapters * (cfg_total_requests \div num_adapters)

C2_Witness ==
    /\ RunOver /\ FreshDistributed /\ NoRaise
    /\ num_adapters = 2 /\ cfg_total_requests = 3
    /\ BothWorked
    /\ CallsExecuted = 2

\* C3: when a distributed-random run that began with fresh counters is over,
\* every adapter 1..A has been invoked exactly floor(T/A) times, whatever
\* the choices and the interleaving.
C3_EachAdapterFloor ==
    (RunOver /\ FreshDistributed)
        => \A a \in Adapters : invoked[a] = cfg_total_requests \div num_adapters

\* C4: no remaining-count counter is ever negative.
C4_CountersNonNegative ==
    /\ total_requests >= 0
    /\ \A a \in Adapters : adapter_counters[a] >= 0

C4_Witness ==
    /\ num_threads >= 2
    /\ \E w \in Workers : wpc[w] = "break"
    /\ \/ single_adapter /\ total_requests = 0 /\ start_total > 0
       \/ /\ ~single_adapter
          /\ \A a \in Adapters : adapter_counters[a] = 0 /\ start_counters[a] > 0

BudgetExhausted ==
    IF single_adapter THEN total_requests = 0
    ELSE \A a \in Adapters : adapter_counters[a] = 0

AllJoined ==
    /\ mpc = "stats"
    /\ \A w \in Workers : Terminated(w)

\* C5: under fair scheduling, once the budget of the running mode is
\* exhausted every worker terminates and the main thread gets past the joins.
C5_ExhaustedLeadsToJoined ==
    (mpc \in {"spawn", "join"} /\ BudgetExhausted) ~> AllJoined

C5_Witness ==
    /\ AllJoined
    /\ NoRaise
    /\ num_threads >= 2
    /\ BudgetExhausted
    /\ CallsExecuted >= 2

StatsPhase ==
    \/ mpc \in {"stats", "ZeroDivisionError"}
    \/ stats.computed

\* C6: the statistics are computed only when every started worker has
\* terminated and been joined; no call is in flight then.
C6_StatsAfterJoin ==
    StatsPhase =>
        /\ joined = num_threads
        /\ \A w \in Workers : Terminated(w)

C6_Witness ==
    /\ stats.computed
    /\ stats.total_requests_made >= 2
    /\ BothWorked

InCriticalSection(w) == wpc[w] \in {"in_lock", "decrement", "unlock", "break"}

\* C7: at most one worker is between the eligibility check and the end of
\* the decrement.
C7_MutualExclusion ==
    Cardinality({w \in Workers : InCriticalSection(w)}) <= 1

C7_Witness ==
    /\ \E w \in Workers : wpc[w] = "decrement"
    /\ \E w \in Workers : wpc[w] = "while" /\ Len(latencies[w]) > 0
    /\ IF single_adapter THEN total_requests = 1
       ELSE SumFn(adapter_counters, num_adapters) = 1

\* Splitting a text at a separator character.
RECURSIVE SplitAcc(_, _, _, _)
SplitAcc(t, sep, cur, acc) ==
    IF t = <<>> THEN Append(acc, cur)
    ELSE IF Head(t) = sep THEN SplitAcc(Tail(t), sep, <<>>, Append(acc, cur))
    ELSE SplitAcc(Tail(t), sep, Append(cur, Head(t)), acc)

\* Every field between separators, empty ones included.
Fields(t, sep) == SplitAcc(t, sep, <<>>, <<>>)

\* The blank-separated tokens of a text, as the shell splits an unquoted
\* expansion.
Tokens(t) == SelectSeq(Fields(t, " "), LAMBDA f : f # <<>>)

\* The final path segment of a child prefix "<base>/<segment>/".
FinalSegment(child) == rsplit_last(SubSeq(child, 1, Len(child) - 1))

ListedIds == [i \in 1..Len(response.CommonPrefixes) |->
                FinalSegment(response.CommonPrefixes[i])]

\* C8: the manifest written for a listing of A distinct child prefixes is A
\* blank-separated tokens in listing order, token i being
\* identifier=/opt/ml/model/identifier/ for the final path segment of child
\* prefix i, with no identifier twice and no trailing delimiter.
C8_ManifestTokens ==
    man_pc = "written" =>
        /\ Tokens(manifest_text) =
              [i \in 1..Len(ListedIds) |->
                  ListedIds[i] \o <<"=">> \o MOUNT \o ListedIds[i] \o <<"/">>]
        /\ \A i, j \in 1..Len(leaf_directories) :
              i # j => leaf_directories[i] # leaf_directories[j]
        /\ manifest_text = <<>> \/ manifest_text[Len(manifest_text)] # " "

HasFlag(cmd) == \E i \in 1..Len(cmd) : cmd[i] = "--enforce-eager"

WithoutFlag(cmd) == SelectSeq(cmd, LAMBDA word : word # "--enforce-eager")

\* C9: the launched command contains --enforce-eager exactly when
\* ENFORCE_EAGER is set to the string "true", and apart from the flag it is
\* the command of lines 5-13 whatever ENFORCE_EAGER is.
C9_EnforceEagerIffTrue ==
    ent_pc = "launched" =>
        /\ HasFlag(argv) <=>
              (env["ENFORCE_EAGER"].set /\ env["ENFORCE_EAGER"].val = "true")
        /\ WithoutFlag(argv) = <<"python3", "-m">> \o CommandLine
        /\ Len(argv) - Len(WithoutFlag(argv)) <= 1

C9_Witness ==
    /\ ent_pc = "launched"
    /\ env["ENFORCE_EAGER"] = Set("true")
    /\ argv[Len(argv)] = "--enforce-eager"
    /\ Len(LORA_MODULES) = 2

ExpectedRoute(r) ==
    IF r = HEALTH THEN PING
    ELSE IF r = V1_COMPLETIONS THEN INVOCATIONS
    ELSE r

\* C10: after the two substitutions a route of the server source is changed
\* only if it is /health or /v1/completions, and running the substitutions
\* again on their output changes nothing.
C10_IdempotentAndScoped ==
    /\ docker_pc = "built" =>
          Fields(api_server_py, "\n") =
              [i \in 1..Len(Fields(base_py, "\n")) |->
                  ExpectedRoute(Fields(base_py, "\n")[i])]
    /\ docker_pc = "rebuilt" => api_server_py = built_py

\* C14: a worker whose remote call is in flight does not hold counters_lock:
\* the lock is taken only while some other worker is inside the with block,
\* so calls of several workers are in flight together and a worker in a call
\* does not stop another from claiming work.
C14_NoLockDuringCall ==
    \A w \in Workers :
        wpc[w] = "predict" =>
            (counters_lock => \E v \in Workers \ {w} : InCriticalSection(v))

C14_Witness ==
    /\ num_threads >= 2
    /\ \E w, v \in Workers :
          /\ w # v
          /\ wpc[w] = "predict"
          /\ wpc[v] = "predict"
    /\ ~counters_lock

\* A step of worker w at one of the two places where it writes a list.
OwnListStep(w) ==
    /\ wpc[w] \in {"predict", "extend"}
    /\ wpc'[w] # wpc[w]
    /\ \A v \in Workers \ {w} : wpc'[v] = wpc[v]

\* C15: the latency list of a worker and the list it is merged into change
\* only in a step of that worker (or when benchmark_scenario creates the
\* lists), and the main thread reads the merged lists only when every worker
\* has terminated.
C15_PrivateLists ==
    /\ [](mpc = "stats" => \A w \in Workers : Terminated(w))
    /\ [][\A w \in Workers :
              (latencies'[w] # latencies[w] \/ all_latencies'[w] # all_latencies[w])
                  => (mpc = "idle" \/ OwnListStep(w))]_vars

C15_Witness ==
    /\ mpc = "join"
    /\ \E w, v \in Workers :
          /\ w # v
          /\ wpc[w] = "predict" /\ Len(latencies[w]) > 0
          /\ wpc[v] = "finished" /\ Len(all_latencies[v]) > 0

\* A run, entered and not completed with metrics, whose configured budget
\* gives no work: T = 0 in single-adapter mode, T < A in distributed mode.
ZeroCallRun ==
    /\ mpc \in {"spawn", "join", "stats", "ZeroDivisionError"}
    /\ \/ FreshSingle /\ cfg_total_requests = 0
       \/ FreshDistributed /\ cfg_total_requests < num_adapters

\* C16: in such a run no worker ever claims a unit or issues a call, every
\* worker leaves its loop at its first check, and the statistics step ends
\* in ZeroDivisionError without metrics.
C16_ZeroCallsDivisionError ==
    /\ [](ZeroCallRun =>
            /\ CallsExecuted = 0
            /\ \A w \in Workers :
                  /\ wpc[w] \notin {"decrement", "unlock", "predict", "raised"}
                  /\ latencies[w] = <<>>
            /\ ~stats.computed)
    /\ [][(ZeroCallRun /\ mpc = "stats") => mpc' = "ZeroDivisionError"]_vars

C16_Witness ==
    /\ mpc = "ZeroDivisionError"
    /\ FreshDistributed
    /\ cfg_total_requests = 1 /\ num_adapters = 2
    /\ num_threads = 2
    /\ \A w \in Workers : wpc[w] = "finished"

HungWorkers == {w \in Workers : wpc[w] = "hung"}

\* C17: while the call of a worker never returns, the main thread stays in
\* benchmark_scenario before the statistics, the worker is never released,
\* and the workers whose calls do return still terminate, having drained the
\* budget if one of them left its loop normally.
C17_HangBlocksJoin ==
    /\ [](HungWorkers # {} => (mpc \in {"spawn", "join"} /\ ~stats.computed))
    /\ [][\A w \in Workers : wpc[w] = "hung" => wpc'[w] = "hung"]_vars
    /\ (HungWorkers # {}) ~>
          /\ mpc = "join"
          /\ \A w \in Workers \ HungWorkers : Terminated(w)
          /\ (\E w \in Workers : wpc[w] = "finished") => BudgetExhausted

C17_Witness ==
    /\ mpc = "join"
    /\ num_threads = 2
    /\ wpc[2] = "hung"
    /\ wpc[1] = "finished" /\ Len(all_latencies[1]) >= 2
    /\ joined = 1
    /\ BudgetExhausted

\* The counters of the mode that is not running are those the run started with.
OtherModeUntouched ==
    IF single_adapter THEN adapter_counters = start_counters
    ELSE total_requests = start_total

StartedExhausted ==
    IF single_adapter THEN start_total = 0
    ELSE \A a \in Adapters : start_counters[a] = 0

\* C18: a run touches only the budget of its mode, once over it has that
\* budget at zero, and a run entered with it at zero issues no call.
C18_RunEndsWithZeroBudget ==
    /\ OtherModeUntouched
    /\ RunOver => BudgetExhausted
    /\ StartedExhausted => CallsExecuted = 0

RaisedWorkers == {w \in Workers : wpc[w] = "raised"}

\* Budget units taken from the counters of the running mode since the run began.
Claimed ==
    IF single_adapter THEN start_total - total_requests
    ELSE SumFn([a \in Adapters |-> start_counters[a] - adapter_counters[a]],
               num_adapters)

\* C19: a call that raises leaves the counters and the shared result as they
\* are, a worker ended by an exception has published nothing, a run that is
\* over with a raised worker and a normally finished one has its budget
\* drained, its reported count is below the number of claimed units, and
\* under fair scheduling the joins complete after a worker raised.
C19_RaiseLosesUnitAndLatencies ==
    /\ [][\A w \in Workers :
            (wpc[w] = "predict" /\ wpc'[w] = "raised") =>
                /\ total_requests' = total_requests
                /\ adapter_counters' = adapter_counters
                /\ all_latencies' = all_latencies]_vars
    /\ [](\A w \in RaisedWorkers : all_latencies[w] = <<>>)
    /\ []((RunOver /\ RaisedWorkers # {}) =>
            /\ TotalRequestsMade < Claimed
            /\ TotalRequestsMade + Cardinality(RaisedWorkers) <= Claimed
            /\ (\E w \in Workers : wpc[w] = "finished") => BudgetExhausted)
    /\ (RaisedWorkers # {} /\ mpc \in {"spawn", "join"}) ~> AllJoined

C19_Witness ==
    /\ mpc = "idle"
    /\ stats.computed
    /\ \E w \in RaisedWorkers : Len(latencies[w]) >= 1
    /\ \E w \in Workers : wpc[w] = "finished"
    /\ BudgetExhausted
    /\ stats.total_requests_made >= 1
    /\ stats.total_requests_made < Claimed

Launched == ent_pc \in {"launched", "returned", "exited"}

\* C13: the script starts the server exactly once, whatever the environment
\* and the manifest file are, as the step after the flag check; it ends only
\* after the server has ended, with the server's exit status.
C13_ExitCodeIsServers ==
    /\ [](launches = (IF Launched THEN 1 ELSE 0))
    /\ [](ent_pc = "exited" => exit_code = server_status)
    /\ [][ent_pc = "checked" => ent_pc' = "launched"]_vars
    /\ [][ent_pc' = "exited" => ent_pc = "returned"]_vars
    /\ [][ent_pc = "exited" => UNCHANGED entVars]_vars

C13_Witness ==
    /\ ent_pc = "exited"
    /\ ~env["HF_MODEL_ID"].set
    /\ ~manifest_file.exists
    /\ server_status = 2
    /\ exit_code = 2
    /\ launches = 1

\* The listing of the bucket as it was without the manifest object.
ListingBeforeUpload == list_objects_v2(bucket \ {ManifestKey})

\* C12: with the manifest object next to the adapter directories the listing
\* has it in Contents only, the listed names are one per child prefix and the
\* same as without the manifest object, none of them is the manifest file's
\* name, and the manifest built from them is the one built without the
\* manifest object, with no token for the manifest file.
C12_ManifestFileNotListed ==
    (man_pc \in {"listed", "written"} /\ ManifestKey \in bucket) =>
        /\ response.Contents = <<ManifestKey>>
        /\ Len(leaf_directories) = Len(response.CommonPrefixes)
        /\ response.CommonPrefixes = ListingBeforeUpload.CommonPrefixes
        /\ leaf_directories = list_s3_leaf_directories(ListingBeforeUpload)
        /\ \A i \in 1..Len(leaf_directories) :
              leaf_directories[i] # lora_modules_manifest_file
        /\ man_pc = "written" =>
              /\ manifest_text =
                    vllm_arg_pattern(list_s3_leaf_directories(ListingBeforeUpload))
              /\ \A i \in 1..Len(Tokens(manifest_text)) :
                    ~IsPrefix(lora_modules_manifest_file, Tokens(manifest_text)[i])

C12_Witness ==
    /\ man_pc = "written"
    /\ ManifestKey \in bucket
    /\ Len(response.CommonPrefixes) = 2
    /\ leaf_directories = <<<<"1">>, <<"1", "1">>>>

\* =================================================================
\* The notebook's cells from the upload to the benchmark, run top to bottom
\* in a fresh kernel; a cell that raises leaves the names it had bound.
Digit(d) ==
    CASE d = 0 -> "0" [] d = 1 -> "1" [] d = 2 -> "2" [] d = 3 -> "3"
      [] d = 4 -> "4" [] d = 5 -> "5" [] d = 6 -> "6" [] d = 7 -> "7"
      [] d = 8 -> "8" [] OTHER -> "9"

\* str(i) of a positive integer.
RECURSIVE str(_)
str(i) == IF i < 10 THEN <<Digit(i)>> ELSE str(i \div 10) \o <<Digit(i % 10)>>

\* The module names of a --lora-modules value: the part of each word before
\* its first "=".
ModuleNames(text) ==
    {Fields(Tokens(text)[i], "=")[1] : i \in 1..Len(Tokens(text))}

\* A name is looked up in the kernel's namespace; NameError when it is absent.
Bound(name) == name \in kernel

\* The bucket outlives the notebook session: an earlier session may have left
\* its adapter folders under the base prefix, with or without its manifest.
NbInit ==
    /\ nb_pc = "upload"
    /\ kernel = {}
    /\ n_adapters \in 1..MaxA
    /\ \E earlier \in 0..MaxA, left \in BOOLEAN :
          /\ bucket = {AdapterKey(str(i)) : i \in 1..earlier}
                        \cup (IF left THEN {ManifestKey} ELSE {})
          /\ s3_manifest = IF left
                           THEN vllm_arg_pattern([i \in 1..earlier |-> str(i)])
                           ELSE <<>>
    /\ deployed = FALSE
    /\ served = {}
    /\ sent = {}
    /\ man_pc = "off"
    /\ response = [CommonPrefixes |-> <<>>, Contents |-> <<>>]
    /\ leaf_directories = <<>>
    /\ manifest_text = <<>>

\* Lines 315-321: the adapter folder is uploaded under base_prefix/1 ..
\* base_prefix/n_adapters; the loop, entered since n_adapters >= 1, leaves
\* prefix bound.
UploadCell ==
    /\ nb_pc = "upload"
    /\ bucket' = bucket \cup {AdapterKey(str(i)) : i \in 1..n_adapters}
    /\ kernel' = kernel \cup {"s3", "upload_folder_to_s3", "n_adapters",
                              "base_prefix", "prefix"}
    /\ nb_pc' = "listing"
    /\ UNCHANGED <<n_adapters, s3_manifest, deployed, served, sent, man_pc,
                   response, leaf_directories, manifest_text>>

\* Lines 352-367: the def binds list_s3_leaf_directories; line 366 then looks
\* up list_s3_directories, and leaf_directories is bound only if that name is.
ListingCell ==
    /\ nb_pc = "listing"
    /\ LET defined == kernel \cup {"list_s3_leaf_directories", "bucket_name", "prefix"}
       IN IF "list_s3_directories" \in defined
          THEN /\ response' = list_objects_v2(bucket)
               /\ leaf_directories' = list_s3_leaf_directories(response')
               /\ kernel' = defined \cup {"leaf_directories"}
          ELSE /\ kernel' = defined
               /\ UNCHANGED <<response, leaf_directories>>
    /\ nb_pc' = "manifest"
    /\ UNCHANGED <<n_adapters, s3_manifest, deployed, served, sent, man_pc,
                   bucket, manifest_text>>

\* Lines 387-394: open(..., "w") empties the local file, the text is written
\* if leaf_directories is bound, and the upload of line 394 is reached only
\* then and goes through only if lora_modules_file is bound.
BuildManifestCell ==
    /\ nb_pc = "manifest"
    /\ kernel' = kernel \cup {"lora_modules_manifest_file"}
    /\ manifest_text' = IF Bound("leaf_directories")
                        THEN vllm_arg_pattern(leaf_directories)
                        ELSE <<>>
    /\ IF Bound("leaf_directories") /\ Bound("lora_modules_file")
       THEN /\ bucket' = bucket \cup {ManifestKey}
            /\ s3_manifest' = manifest_text'
       ELSE UNCHANGED <<bucket, s3_manifest>>
    /\ nb_pc' = "deploy"
    /\ UNCHANGED <<n_adapters, deployed, served, sent, man_pc, response,
                   leaf_directories>>

\* Lines 464-494: the endpoint's container gets the objects under base_prefix
\* as /opt/ml/model and the entrypoint reads the manifest file there, once; a
\* missing file gives no module at all.  Line 487 binds vllm_predictor when
\* deploy() returns; when it raises after the container start the name stays
\* as it was.
DeployCell ==
    /\ nb_pc = "deploy"
    /\ \E deploy_returned \in BOOLEAN :
          kernel' = kernel \cup {"config", "endpoint_name", "vllm_model"}
                          \cup (IF deploy_returned THEN {"vllm_predictor"} ELSE {})
    /\ deployed' = TRUE
    /\ served' = IF ManifestKey \in bucket THEN ModuleNames(s3_manifest) ELSE {}
    /\ nb_pc' = "predictor"
    /\ UNCHANGED <<n_adapters, s3_manifest, sent, manVars>>

\* The cell after the deployment: vllm_predictor = Predictor(endpoint_name, ...)
PredictorCell ==
    /\ nb_pc = "predictor"
    /\ kernel' = IF Bound("endpoint_name")
                 THEN kernel \cup {"vllm_predictor"} ELSE kernel
    /\ nb_pc' = "test"
    /\ UNCHANGED <<n_adapters, s3_manifest, deployed, served, sent, manVars>>

\* Lines 564-565: a request for the base model, then, if that call returned,
\* one for "model": "1".
TestCell ==
    /\ nb_pc = "test"
    /\ \E base_returned \in BOOLEAN :
          sent' = IF Bound("vllm_predictor") /\ base_returned
                  THEN sent \cup {str(1)} ELSE sent
    /\ nb_pc' = "warmup"
    /\ UNCHANGED <<kernel, n_adapters, s3_manifest, deployed, served, manVars>>

\* Lines 622-629: one request per i in 1..n_adapters, "model": str(i); a call
\* that raises ends the loop.
WarmUpCell ==
    /\ nb_pc = "warmup"
    /\ \E last \in 1..n_adapters :
          sent' = IF Bound("vllm_predictor")
                  THEN sent \cup {str(i) : i \in 1..last} ELSE sent
    /\ nb_pc' = "benchmark"
    /\ UNCHANGED <<kernel, n_adapters, s3_manifest, deployed, served, manVars>>

\* Lines 670-743, first run: benchmark_scenario(single_adapter=True) sends
\* "model": str(1) in every call.
BenchmarkSingleRun ==
    /\ nb_pc = "benchmark"
    /\ sent' = IF Bound("vllm_predictor") THEN sent \cup {str(1)} ELSE sent
    /\ nb_pc' = "benchmark_random"
    /\ UNCHANGED <<kernel, n_adapters, s3_manifest, deployed, served, manVars>>

\* Second run: benchmark_scenario() sends str(adapter_id) for the adapters it
\* draws from 1..num_adapters, the same literal as n_adapters; a call that
\* raises ends its worker, so any part of them may be called.
BenchmarkRandomRun ==
    /\ nb_pc = "benchmark_random"
    /\ \E called \in SUBSET (1..n_adapters) :
          sent' = IF Bound("vllm_predictor")
                  THEN sent \cup {str(a) : a \in called} ELSE sent
    /\ nb_pc' = "done"
    /\ UNCHANGED <<kernel, n_adapters, s3_manifest, deployed, served, manVars>>

NextNotebook ==
    \/ UploadCell /\ UNCHANGED <<benchVars, dockerVars, entVars>>
    \/ ListingCell /\ UNCHANGED <<benchVars, dockerVars, entVars>>
    \/ BuildManifestCell /\ UNCHANGED <<benchVars, dockerVars, entVars>>
    \/ DeployCell /\ UNCHANGED <<benchVars, dockerVars, entVars>>
    \/ PredictorCell /\ UNCHANGED <<benchVars, dockerVars, entVars>>
    \/ TestCell /\ UNCHANGED <<benchVars, dockerVars, entVars>>
    \/ WarmUpCell /\ UNCHANGED <<benchVars, dockerVars, entVars>>
    \/ BenchmarkSingleRun /\ UNCHANGED <<benchVars, dockerVars, entVars>>
    \/ BenchmarkRandomRun /\ UNCHANGED <<benchVars, dockerVars, entVars>>

InitNotebook == NbInit /\ BenchIdle /\ DockerIdle /\ EntIdle

SpecNotebook == InitNotebook /\ [][NextNotebook]_vars

\* C11: every adapter identifier sent in an inference request is a module
\* name of the manifest the server read at its start.
C11_SentIdsInManifest == sent \subseteq served
====
